---- MODULE Spec2Model ----
(***************************************************************************)
(* Model of xling-network/data_loader.py: the training dataset             *)
(* (XLingualDataset), the generic feature dataset (XLingualLoader), the    *)
(* padding routine preprocess_tokens and the two batch collators.          *)
(*                                                                         *)
(* Python values are modelled as follows: a list is a sequence (Python     *)
(* index i is TLA+ index i+1), a dict is a function, a 1-D tensor is a     *)
(* sequence of numbers and a 2-D tensor is a sequence of rows.  A call     *)
(* that raises is a result [ok |-> FALSE, err |-> <exception name>].       *)
(***************************************************************************)
EXTENDS Integers, Sequences, FiniteSets, TLC

VARIABLES
    records,       \* the list read_json_file returns for dataset_path
    obj,           \* which dataset object exists: "none", "XLingualDataset",
                   \* "XLingualLoader", or "failed" (__init__ raised)
    targets,       \* XLingualDataset.targets
    printed,       \* what XLingualDataset.__init__ printed (missing keywords)
    collate_fn,    \* the collate closure in use: none yet, the training one, or
                   \* the evaluation one with the index_path and k it captured
    call           \* the last call made on the object and what it returned

vars == <<records, obj, targets, printed, collate_fn, call>>

-----------------------------------------------------------------------------
(* Bounds of the model. *)

\* max_seq_length: 128 in the source (lines 38 and 138), scaled down here.
max_seq_length == 4
\* longest raw token sequence handed to preprocess_tokens directly
MaxTokens == 4
\* longest record list
MaxRecords == 2
\* largest batch handed to a collator
MaxBatch == 2

\* tokenizer.num_special_tokens_to_add() of the pinned tokenizer: [CLS], [SEP]
special_tokens_count == 2

-----------------------------------------------------------------------------
(* The external collaborators, at their interface. *)

\* The seven supported tags, in the insertion order of the lang_map dict.
LangOrder == <<"HI", "BE", "GU", "OD", "PU", "EN", "MA">>

Range(s) == {s[i] : i \in DOMAIN s}

\* self.lang_map after line 34: the identity on the seven tags.
lang_map == [lang \in Range(LangOrder) |-> lang]

language_ids ==
    [lang \in Range(LangOrder) |->
        CASE lang = "HI" -> 0 [] lang = "BE" -> 1 [] lang = "GU" -> 2
          [] lang = "OD" -> 3 [] lang = "PU" -> 4 [] lang = "EN" -> 5
          [] lang = "MA" -> 6]

\* The <lang>.vocab files under index_path: one word per line.
VocabFile ==
    [lang \in Range(LangOrder) |->
        CASE lang = "HI" -> <<"ka", "kab">>
          [] lang = "EN" -> <<"kab", "pa">>
          [] OTHER -> <<>>]

\* The <lang>.index files: row i of the index is the vector of word id i.
IndexFile ==
    [lang \in Range(LangOrder) |->
        CASE lang = "HI" -> << <<11, 12>>, <<13, 14>> >>
          [] lang = "EN" -> << <<21, 22>>, <<23, 24>> >>
          [] OTHER -> <<>>]

\* word2idx = {line.strip(): i for i, line in enumerate(f)}: a later line wins.
word2idx(lang) ==
    LET f == VocabFile[lang] IN
    [w \in Range(f) |->
        (CHOOSE i \in DOMAIN f :
            f[i] = w /\ \A j \in DOMAIN f : f[j] = w => j <= i) - 1]

\* index.reconstruct(i)
reconstruct(lang, i) == IndexFile[lang][i + 1]

\* tokenizer.tokenize: text -> subword pieces.
tokenize(text) ==
    CASE text = ""            -> <<>>
      [] text = "ka"          -> <<"_ka">>
      [] text = "kab"         -> <<"_ka", "b">>
      [] text = "pa"          -> <<"_pa">>
      [] text = "kab kab pa kab" -> <<"_ka", "b", "_ka", "b", "_pa", "_ka", "b">>

cls_token == "[CLS]"
sep_token == "[SEP]"
pad_token == "<pad>"

\* tokenizer.convert_tokens_to_ids, one token.
TokenId(tok) ==
    CASE tok = pad_token -> 0
      [] tok = cls_token -> 2
      [] tok = sep_token -> 3
      [] tok = "_ka"     -> 7
      [] tok = "b"       -> 8
      [] tok = "_pa"     -> 9
      [] OTHER           -> 1

convert_tokens_to_ids(tokens) == [i \in DOMAIN tokens |-> TokenId(tokens[i])]

\* n copies of x; Python's [x] * n is [] for n <= 0.
Repeat(x, n) == [i \in 1..n |-> x]

\* Python's seq[:n] for n >= 0.
Prefix(s, n) == SubSeq(s, 1, IF n < Len(s) THEN n ELSE Len(s))

\* PyIndex with the index reduced modulo the length instead of checked.
PyIndex_wrapping(s, idx) ==
    IF s = <<>> THEN [ok |-> FALSE, err |-> "IndexError"]
    ELSE [ok |-> TRUE, val |-> s[(idx % Len(s)) + 1]]

\* Python's list[idx]: a negative idx counts from the end.
PyIndex(s, idx) ==
    IF 0 <= idx /\ idx < Len(s) THEN [ok |-> TRUE, val |-> s[idx + 1]]
    ELSE IF idx < 0 /\ -Len(s) <= idx THEN [ok |-> TRUE, val |-> s[Len(s) + idx + 1]]
    ELSE [ok |-> FALSE, err |-> "IndexError"]

\* DictGet with a default for a missing key, as d.get(key, d["EN"]).
DictGet_default(d, key) ==
    IF key \in DOMAIN d THEN [ok |-> TRUE, val |-> d[key]]
    ELSE [ok |-> TRUE, val |-> d["EN"]]

\* Python's dict[key].
DictGet(d, key) ==
    IF key \in DOMAIN d THEN [ok |-> TRUE, val |-> d[key]]
    ELSE [ok |-> FALSE, err |-> "KeyError"]

-----------------------------------------------------------------------------
(* XLingualLoader.preprocess_tokens *)

\* preprocess_tokens without the truncation of lines 174-175.
preprocess_tokens_untruncated(input_tokens) ==
    LET tokens2 == <<cls_token>> \o input_tokens \o <<sep_token>>
        npad    == max_seq_length - Len(tokens2)
    IN  [input_ids      |-> convert_tokens_to_ids(tokens2 \o Repeat(pad_token, npad)),
         token_type_ids |-> Repeat(0, Len(tokens2)) \o Repeat(0, npad),
         attention_mask |-> Repeat(1, Len(tokens2)) \o Repeat(0, npad)]

\* preprocess_tokens truncating to the last tokens instead of the first.
preprocess_tokens_keeps_tail(input_tokens) ==
    LET keep    == max_seq_length - special_tokens_count
        tokens1 == IF Len(input_tokens) > keep
                   THEN SubSeq(input_tokens, Len(input_tokens) - keep + 1, Len(input_tokens))
                   ELSE input_tokens
        tokens2 == <<cls_token>> \o tokens1 \o <<sep_token>>
        npad    == max_seq_length - Len(tokens2)
    IN  [input_ids      |-> convert_tokens_to_ids(tokens2 \o Repeat(pad_token, npad)),
         token_type_ids |-> Repeat(0, Len(tokens2)) \o Repeat(0, npad),
         attention_mask |-> Repeat(1, Len(tokens2)) \o Repeat(0, npad)]

\* preprocess_tokens building the attention mask after the padding.
preprocess_tokens_mask_after_padding(input_tokens) ==
    LET keep    == max_seq_length - special_tokens_count
        tokens1 == IF Len(input_tokens) > keep THEN Prefix(input_tokens, keep)
                   ELSE input_tokens
        tokens2 == <<cls_token>> \o tokens1 \o <<sep_token>>
        tokens3 == tokens2 \o Repeat(pad_token, max_seq_length - Len(tokens2))
    IN  [input_ids      |-> convert_tokens_to_ids(tokens3),
         token_type_ids |-> Repeat(0, Len(tokens3)),
         attention_mask |-> Repeat(1, Len(tokens3))]

preprocess_tokens(input_tokens) ==
    LET tokens1 == IF Len(input_tokens) > max_seq_length - special_tokens_count
                   THEN Prefix(input_tokens, max_seq_length - special_tokens_count)
                   ELSE input_tokens
        tokens2 == <<cls_token>> \o tokens1 \o <<sep_token>>
        len_before_padd == Len(tokens2)
        tokens3 == tokens2 \o Repeat(pad_token, max_seq_length - len_before_padd)
    IN  [input_ids      |-> convert_tokens_to_ids(tokens3),
         token_type_ids |-> Repeat(0, Len(tokens2))
                              \o Repeat(0, max_seq_length - len_before_padd),
         attention_mask |-> Repeat(1, Len(tokens2))
                              \o Repeat(0, max_seq_length - len_before_padd)]

-----------------------------------------------------------------------------
(* XLingualDataset *)

\* self.tokenizer(text, padding="max_length", truncation=True,
\*                max_length=self.max_seq_length, return_tensors="pt"):
\* the first max_length - 2 pieces between the markers, padded on the right;
\* return_tensors="pt" gives every field a leading axis of size 1.
tokenizer_call(text) ==
    LET pieces == Prefix(tokenize(text), max_seq_length - special_tokens_count)
        real   == <<cls_token>> \o pieces \o <<sep_token>>
        npad   == max_seq_length - Len(real)
    IN  [input_ids      |-> << convert_tokens_to_ids(real \o Repeat(pad_token, npad)) >>,
         token_type_ids |-> << Repeat(0, max_seq_length) >>,
         attention_mask |-> << Repeat(1, Len(real)) \o Repeat(0, npad) >>]

\* The loops of __init__ (lines 40-51), from language number li and record
\* number j on, with the targets tg and the printed lines out so far.
RECURSIVE InitLoop(_, _, _, _, _)
InitLoop(ds, li, j, tg, out) ==
    IF li > Len(LangOrder) THEN [ok |-> TRUE, targets |-> tg, printed |-> out]
    ELSE IF j > Len(ds) THEN InitLoop(ds, li + 1, 1, tg, out)
    ELSE
        LET d    == ds[j]
            lang == LangOrder[li]
            tag  == DictGet(lang_map, d.Target_ID)
            w2i  == word2idx(lang)
        IN  IF ~tag.ok THEN [ok |-> FALSE, err |-> tag.err, targets |-> tg, printed |-> out]
            ELSE IF tag.val = lang
            THEN IF d.Target_keyword \in DOMAIN w2i
                 THEN InitLoop(ds, li, j + 1,
                               Append(tg, reconstruct(lang, w2i[d.Target_keyword])), out)
                 ELSE InitLoop(ds, li, j + 1, tg,
                               Append(out, <<d.Target_keyword, "not found">>))
            ELSE InitLoop(ds, li, j + 1, tg, out)

XLingualDataset_init(ds) == InitLoop(ds, 1, 1, <<>>, <<>>)

\* XLingualDataset.__getitem__ on a constructed dataset (ds, tg).
XLingualDataset_getitem(ds, tg, idx) ==
    LET d == PyIndex(ds, idx)
        t == PyIndex(tg, idx)
    IN  IF ~d.ok THEN [ok |-> FALSE, err |-> d.err]
        ELSE IF ~t.ok THEN [ok |-> FALSE, err |-> t.err]
        ELSE LET src == DictGet(lang_map, d.val.Source_ID)
                 tgt == DictGet(lang_map, d.val.Target_ID)
             IN  IF ~src.ok THEN [ok |-> FALSE, err |-> src.err]
                 ELSE IF ~tgt.ok THEN [ok |-> FALSE, err |-> tgt.err]
                 ELSE [ok  |-> TRUE,
                       val |-> [phrase      |-> tokenizer_call(d.val.Source_text),
                                target      |-> t.val,
                                source_lang |-> src.val,
                                target_lang |-> tgt.val,
                                target_word |-> d.val.Target_keyword,
                                label       |-> <<1>>]]

XLingualDataset_len(ds) == Len(ds)

-----------------------------------------------------------------------------
(* XLingualLoader *)

convert_dict_2_features(text_dict) ==
    LET src_tokens    == tokenize(text_dict.Source_text)
        target_tokens == tokenize(text_dict.Target_keyword)
        src_id        == DictGet(language_ids, text_dict.Source_ID)
        target_id     == DictGet(language_ids, text_dict.Target_ID)
    IN  IF ~src_id.ok THEN [ok |-> FALSE, err |-> src_id.err]
        ELSE IF ~target_id.ok THEN [ok |-> FALSE, err |-> target_id.err]
        ELSE [ok  |-> TRUE,
              val |-> [src_id    |-> src_id.val,
                       target_id |-> target_id.val,
                       phrase    |-> preprocess_tokens(src_tokens),
                       target    |-> preprocess_tokens(target_tokens)]]

\* input_to_tensor: a dict value becomes a dict of tensors, a number becomes
\* the one-element tensor [number].
input_to_tensor(data) ==
    [key \in DOMAIN data |->
        IF key \in {"phrase", "target"} THEN data[key] ELSE <<data[key]>>]

XLingualLoader_getitem(ds, idx) ==
    LET d == PyIndex(ds, idx)
    IN  IF ~d.ok THEN [ok |-> FALSE, err |-> d.err]
        ELSE LET data == convert_dict_2_features(d.val)
             IN  IF ~data.ok THEN data
                 ELSE [ok |-> TRUE, val |-> input_to_tensor(data.val)]

-----------------------------------------------------------------------------
(* The collators *)

\* torch.cat of a list of 2-D tensors along axis 0.
RECURSIVE Cat(_)
Cat(ts) == IF ts = <<>> THEN <<>> ELSE Head(ts) \o Cat(Tail(ts))

\* t.unsqueeze(0)
Unsqueeze(t) == <<t>>

\* train_collate filling source_lang from the items' target_lang.
train_collate_langs_confused(batch) ==
    [phrase |->
        [input_ids      |-> Cat([i \in DOMAIN batch |-> batch[i].phrase.input_ids]),
         attention_mask |-> Cat([i \in DOMAIN batch |-> batch[i].phrase.attention_mask]),
         token_type_ids |-> Cat([i \in DOMAIN batch |-> batch[i].phrase.token_type_ids])],
     target       |-> Cat([i \in DOMAIN batch |-> Unsqueeze(batch[i].target)]),
     source_lang  |-> [i \in DOMAIN batch |-> batch[i].target_lang],
     target_lang  |-> [i \in DOMAIN batch |-> batch[i].target_lang],
     target_words |-> [i \in DOMAIN batch |-> batch[i].target_word],
     label        |-> Cat([i \in DOMAIN batch |-> Unsqueeze(batch[i].label)])]

\* The dict comprehension of lines 84-95.
train_collate(batch) ==
    [phrase |->
        [input_ids      |-> Cat([i \in DOMAIN batch |-> batch[i].phrase.input_ids]),
         attention_mask |-> Cat([i \in DOMAIN batch |-> batch[i].phrase.attention_mask]),
         token_type_ids |-> Cat([i \in DOMAIN batch |-> batch[i].phrase.token_type_ids])],
     target       |-> Cat([i \in DOMAIN batch |-> Unsqueeze(batch[i].target)]),
     source_lang  |-> [i \in DOMAIN batch |-> batch[i].source_lang],
     target_lang  |-> [i \in DOMAIN batch |-> batch[i].target_lang],
     target_words |-> [i \in DOMAIN batch |-> batch[i].target_word],
     label        |-> Cat([i \in DOMAIN batch |-> Unsqueeze(batch[i].label)])]

\* eval_collate without the label entry.
eval_collate_unlabelled(index_path, k, batch) ==
    [phrase |->
        [input_ids      |-> Cat([i \in DOMAIN batch |-> batch[i].phrase.input_ids]),
         attention_mask |-> Cat([i \in DOMAIN batch |-> batch[i].phrase.attention_mask]),
         token_type_ids |-> Cat([i \in DOMAIN batch |-> batch[i].phrase.token_type_ids])],
     target       |-> Cat([i \in DOMAIN batch |-> Unsqueeze(batch[i].target)]),
     source_lang  |-> [i \in DOMAIN batch |-> batch[i].source_lang],
     target_lang  |-> [i \in DOMAIN batch |-> batch[i].target_lang],
     target_words |-> [i \in DOMAIN batch |-> batch[i].target_word],
     index_path   |-> index_path,
     k            |-> k]

\* The dict comprehension of lines 101-114, with the captured index_path, k.
eval_collate(index_path, k, batch) ==
    [phrase |->
        [input_ids      |-> Cat([i \in DOMAIN batch |-> batch[i].phrase.input_ids]),
         attention_mask |-> Cat([i \in DOMAIN batch |-> batch[i].phrase.attention_mask]),
         token_type_ids |-> Cat([i \in DOMAIN batch |-> batch[i].phrase.token_type_ids])],
     target       |-> Cat([i \in DOMAIN batch |-> Unsqueeze(batch[i].target)]),
     source_lang  |-> [i \in DOMAIN batch |-> batch[i].source_lang],
     target_lang  |-> [i \in DOMAIN batch |-> batch[i].target_lang],
     target_words |-> [i \in DOMAIN batch |-> batch[i].target_word],
     label        |-> Cat([i \in DOMAIN batch |-> Unsqueeze(batch[i].label)]),
     index_path   |-> index_path,
     k            |-> k]

-----------------------------------------------------------------------------
(* Inputs *)

Keywords   == {"ka", "kab"}
\* "XX" is a tag outside the supported set.
SourceTags == {"EN", "XX"}
TargetTags == {"HI", "EN", "XX"}

\* The phrase that describes a keyword: a short one and one longer than
\* max_seq_length.
PhraseOf(keyword) == IF keyword = "ka" THEN "pa" ELSE "kab kab pa kab"

RecordSet ==
    {[Source_text |-> PhraseOf(kw), Source_ID |-> s, Target_ID |-> t, Target_keyword |-> kw] :
        s \in SourceTags, t \in TargetTags, kw \in Keywords}

\* The records whose two tags are supported.
CleanRecordSet ==
    {d \in RecordSet : d.Source_ID \in DOMAIN lang_map /\ d.Target_ID \in DOMAIN lang_map}

SeqsUpTo(S, n) == UNION {[1..m -> S] : m \in 0..n}

\* The pieces tokenize can produce.
Pieces == {"_ka", "b", "_pa"}

IndexPaths == {"index_a", "index_b"}
Ks         == {1, 5}

\* Every integer a caller may pass as idx, in and out of range.
Indices == -(MaxRecords + 1) .. (MaxRecords + 1)

-----------------------------------------------------------------------------
(* Construction and item retrieval *)

Init ==
    /\ records \in SeqsUpTo(RecordSet, MaxRecords)
    /\ obj = "none"
    /\ targets = <<>>
    /\ printed = <<>>
    /\ collate_fn = [kind |-> "none"]
    /\ call = [op |-> "none"]

\* XLingualDataset(dataset_path, index_path)
ConstructDataset ==
    /\ obj = "none"
    /\ LET r == XLingualDataset_init(records)
       IN  /\ obj' = IF r.ok THEN "XLingualDataset" ELSE "failed"
           /\ targets' = IF r.ok THEN r.targets ELSE <<>>
           /\ printed' = r.printed
           /\ call' = [op |-> "XLingualDataset.__init__", ok |-> r.ok]
    /\ UNCHANGED <<records, collate_fn>>

\* XLingualLoader(dataset_path)
ConstructLoader ==
    /\ obj = "none"
    /\ obj' = "XLingualLoader"
    /\ call' = [op |-> "XLingualLoader.__init__", ok |-> TRUE]
    /\ UNCHANGED <<records, targets, printed, collate_fn>>

\* dataset[idx] on the training dataset
DatasetGetItem(idx) ==
    /\ obj = "XLingualDataset"
    /\ call' = [op  |-> "XLingualDataset.__getitem__",
                idx |-> idx,
                res |-> XLingualDataset_getitem(records, targets, idx)]
    /\ UNCHANGED <<records, obj, targets, printed, collate_fn>>

\* dataset[idx] on the generic feature dataset
LoaderGetItem(idx) ==
    /\ obj = "XLingualLoader"
    /\ call' = [op  |-> "XLingualLoader.__getitem__",
                idx |-> idx,
                res |-> XLingualLoader_getitem(records, idx)]
    /\ UNCHANGED <<records, obj, targets, printed, collate_fn>>

Next ==
    \/ ConstructDataset
    \/ ConstructLoader
    \/ \E idx \in Indices : DatasetGetItem(idx)
    \/ \E idx \in Indices : LoaderGetItem(idx)

Spec == Init /\ [][Next]_vars

-----------------------------------------------------------------------------
(* Collation: a constructed training dataset, one collate closure, batches *)

InitCollate ==
    /\ records \in SeqsUpTo(CleanRecordSet, MaxRecords)
    /\ obj = "XLingualDataset"
    /\ targets = XLingualDataset_init(records).targets
    /\ printed = XLingualDataset_init(records).printed
    /\ collate_fn = [kind |-> "none"]
    /\ call = [op |-> "XLingualDataset.__init__", ok |-> TRUE]

\* The items a data loader fetches for the record numbers idxs.
Fetch(idxs) ==
    [i \in DOMAIN idxs |-> XLingualDataset_getitem(records, targets, idxs[i]).val]

Fetchable(idxs) ==
    \A i \in DOMAIN idxs : XLingualDataset_getitem(records, targets, idxs[i]).ok

\* torch.cat raises on an empty list of tensors.
Collated(batch, out) ==
    IF batch = <<>> THEN [ok |-> FALSE, err |-> "RuntimeError"]
    ELSE [ok |-> TRUE, val |-> out]

\* collate = get_train_collate()
GetTrainCollate ==
    /\ collate_fn.kind = "none"
    /\ collate_fn' = [kind |-> "train"]
    /\ call' = [op |-> "get_train_collate"]
    /\ UNCHANGED <<records, obj, targets, printed>>

\* collate = get_eval_collate(index_path, k)
GetEvalCollate(index_path, k) ==
    /\ collate_fn.kind = "none"
    /\ collate_fn' = [kind |-> "eval", index_path |-> index_path, k |-> k]
    /\ call' = [op |-> "get_eval_collate", index_path |-> index_path, k |-> k]
    /\ UNCHANGED <<records, obj, targets, printed>>

\* collate(batch), collate being the training closure
TrainCollate(idxs) ==
    /\ collate_fn.kind = "train"
    /\ Fetchable(idxs)
    /\ LET batch == Fetch(idxs)
       IN  call' = [op    |-> "train_collate",
                    batch |-> batch,
                    res   |-> Collated(batch, train_collate(batch))]
    /\ UNCHANGED <<records, obj, targets, printed, collate_fn>>

\* collate(batch), collate being the evaluation closure
EvalCollate(idxs) ==
    /\ collate_fn.kind = "eval"
    /\ Fetchable(idxs)
    /\ LET batch == Fetch(idxs)
       IN  call' = [op    |-> "eval_collate",
                    batch |-> batch,
                    res   |-> Collated(batch,
                                eval_collate(collate_fn.index_path, collate_fn.k, batch))]
    /\ UNCHANGED <<records, obj, targets, printed, collate_fn>>

BatchIndices == SeqsUpTo(0 .. (MaxRecords - 1), MaxBatch)

NextCollate ==
    \/ GetTrainCollate
    \/ \E index_path \in IndexPaths, k \in Ks : GetEvalCollate(index_path, k)
    \/ \E idxs \in BatchIndices : TrainCollate(idxs)
    \/ \E idxs \in BatchIndices : EvalCollate(idxs)

SpecCollate == InitCollate /\ [][NextCollate]_vars

-----------------------------------------------------------------------------
(* preprocess_tokens on every raw token sequence up to MaxTokens *)

InitTok ==
    /\ records = <<>>
    /\ obj = "XLingualLoader"
    /\ targets = <<>>
    /\ printed = <<>>
    /\ collate_fn = [kind |-> "none"]
    /\ call = [op |-> "XLingualLoader.__init__", ok |-> TRUE]

PreprocessTokens(input_tokens) ==
    /\ obj = "XLingualLoader"
    /\ call' = [op           |-> "preprocess_tokens",
                input_tokens |-> input_tokens,
                out          |-> preprocess_tokens(input_tokens)]
    /\ UNCHANGED <<records, obj, targets, printed, collate_fn>>

NextTok == \E input_tokens \in SeqsUpTo(Pieces, MaxTokens) : PreprocessTokens(input_tokens)

SpecTok == InitTok /\ [][NextTok]_vars

-----------------------------------------------------------------------------
(* Vocabulary of the properties *)

SupportedTags == {"HI", "BE", "GU", "OD", "PU", "EN", "MA"}

\* d's keyword is a word of the vocabulary of d's own target language.
Resolvable(d) ==
    /\ d.Target_ID \in SupportedTags
    /\ \E i \in DOMAIN VocabFile[d.Target_ID] : VocabFile[d.Target_ID][i] = d.Target_keyword

\* reconstruct(table[keyword]) in d's own target language.
OwnVector(d) == reconstruct(d.Target_ID, word2idx(d.Target_ID)[d.Target_keyword])

\* The record a successful get(idx) was served from.
Served(idx) == IF idx >= 0 THEN records[idx + 1] ELSE records[Len(records) + idx + 1]

InRange(idx) == idx \in 0 .. (XLingualDataset_len(records) - 1)

Min(a, b) == IF a < b THEN a ELSE b

\* The embedding dimensionality D of the stores.
D == Len(IndexFile["HI"][1])

GotTrainItem == call.op = "XLingualDataset.__getitem__" /\ call.res.ok

GotLoaderItem == call.op = "XLingualLoader.__getitem__" /\ call.res.ok

-----------------------------------------------------------------------------
(* Training dataset: record/target alignment *)

\* C1: for every record index idx, the target that get(idx) returns is the
\* vector of record idx's own keyword in record idx's own target language,
\* whatever the mix and order of target languages (all keywords resolvable).
C1_TargetIsOwnVector ==
    (/\ GotTrainItem
     /\ InRange(call.idx)
     /\ \A i \in DOMAIN records : Resolvable(records[i]))
    => call.res.val.target = OwnVector(records[call.idx + 1])

\* C2: when some record's keyword is absent from its language's vocabulary
\* (all records being of one target language, so that only the absence is at
\* play), every item returned is the item of a record whose keyword resolves
\* and carries that record's own vector: nothing is shifted.
C2_MissingKeywordDoesNotShift ==
    (/\ GotTrainItem
     /\ InRange(call.idx)
     /\ \E i \in DOMAIN records : ~Resolvable(records[i])
     /\ \A i, j \in DOMAIN records : records[i].Target_ID = records[j].Target_ID)
    => /\ Resolvable(records[call.idx + 1])
       /\ call.res.val.target = OwnVector(records[call.idx + 1])

\* C10: once the training dataset is constructed, the target list has exactly
\* one entry per record.
C10_OneTargetPerRecord ==
    obj = "XLingualDataset" => Len(targets) = XLingualDataset_len(records)

-----------------------------------------------------------------------------
(* preprocess_tokens *)

PreprocessCalled == call.op = "preprocess_tokens"

\* C3: input_ids, attention_mask and token_type_ids each have length exactly
\* max_seq_length, for every raw token sequence.
C3_LengthIsL ==
    PreprocessCalled =>
        /\ Len(call.out.input_ids) = max_seq_length
        /\ Len(call.out.attention_mask) = max_seq_length
        /\ Len(call.out.token_type_ids) = max_seq_length

C3_Witness ==
    /\ PreprocessCalled
    /\ Len(call.input_tokens) > max_seq_length - 2
    /\ Len(call.out.input_ids) = max_seq_length

\* C4: the padded sequence is the start marker, the first min(len(T), L-2)
\* tokens of T in order, the end marker, and pad tokens up to L (none when
\* len(T) > L-2).
C4_PaddedSequence ==
    PreprocessCalled =>
        LET T   == call.input_tokens
            ids == call.out.input_ids
            n   == Min(Len(T), max_seq_length - 2)
        IN  /\ DOMAIN ids = 1 .. max_seq_length
            /\ ids[1] = TokenId(cls_token)
            /\ \A i \in 1 .. n : ids[i + 1] = TokenId(T[i])
            /\ ids[n + 2] = TokenId(sep_token)
            /\ \A i \in (n + 3) .. max_seq_length : ids[i] = TokenId(pad_token)
            /\ (Len(T) > max_seq_length - 2 =>
                    \A i \in DOMAIN ids : ids[i] # TokenId(pad_token))

C4_Witness ==
    /\ PreprocessCalled
    /\ Len(call.input_tokens) > max_seq_length - 2
    /\ call.input_tokens[1] # call.input_tokens[Len(call.input_tokens)]
    /\ call.out.input_ids[2] = TokenId(call.input_tokens[1])
    /\ call.out.input_ids[max_seq_length] = TokenId(sep_token)

\* C5: attention_mask is min(len(T), L-2) + 2 ones followed only by zeros, and
\* token_type_ids is zero at every one of the L positions.
C5_MaskAndTypeIds ==
    PreprocessCalled =>
        LET ones == Min(Len(call.input_tokens), max_seq_length - 2) + 2
        IN  /\ DOMAIN call.out.attention_mask = 1 .. max_seq_length
            /\ \A i \in 1 .. max_seq_length :
                   call.out.attention_mask[i] = IF i <= ones THEN 1 ELSE 0
            /\ DOMAIN call.out.token_type_ids = 1 .. max_seq_length
            /\ \A i \in 1 .. max_seq_length : call.out.token_type_ids[i] = 0

C5_Witness ==
    /\ PreprocessCalled
    /\ Len(call.input_tokens) < max_seq_length - 2
    /\ call.out.attention_mask[Len(call.input_tokens) + 2] = 1
    /\ call.out.attention_mask[max_seq_length] = 0

-----------------------------------------------------------------------------
(* Collators *)

\* C6: the training collator turns N items into phrase fields of shape
\* [N, L] and a target of shape [N, D]; row i of every field and entry i of
\* every list come from item i.
C6_TrainCollateStacks ==
    (call.op = "train_collate" /\ call.res.ok) =>
        LET items == call.batch
            N     == Len(items)
            b     == call.res.val
        IN  /\ N >= 1
            /\ \A f \in {"input_ids", "attention_mask", "token_type_ids"} :
                   /\ DOMAIN b.phrase[f] = 1 .. N
                   /\ \A i \in 1 .. N :
                          /\ Len(b.phrase[f][i]) = max_seq_length
                          /\ b.phrase[f][i] = items[i].phrase[f][1]
            /\ DOMAIN b.target = 1 .. N
            /\ \A i \in 1 .. N : Len(b.target[i]) = D /\ b.target[i] = items[i].target
            /\ DOMAIN b.source_lang = 1 .. N
            /\ DOMAIN b.target_lang = 1 .. N
            /\ DOMAIN b.target_words = 1 .. N
            /\ \A i \in 1 .. N :
                   /\ b.source_lang[i] = items[i].source_lang
                   /\ b.target_lang[i] = items[i].target_lang
                   /\ b.target_words[i] = items[i].target_word

C6_Witness ==
    /\ call.op = "train_collate"
    /\ call.res.ok
    /\ Len(call.batch) = 2
    /\ call.batch[1].target_word # call.batch[2].target_word
    /\ call.batch[1].target_lang # call.batch[2].target_lang
    /\ call.res.val.target_words = <<call.batch[1].target_word, call.batch[2].target_word>>

\* C7: the evaluation collator returns the training collator's batch for the
\* same items plus index_path and k, each the value given to get_eval_collate.
C7_EvalIsTrainPlusConfig ==
    (call.op = "eval_collate" /\ call.res.ok) =>
        LET t == train_collate(call.batch)
            e == call.res.val
        IN  /\ DOMAIN e = DOMAIN t \cup {"index_path", "k"}
            /\ \A f \in DOMAIN t : e[f] = t[f]
            /\ e.index_path = collate_fn.index_path
            /\ e.k = collate_fn.k

C7_Witness ==
    /\ call.op = "eval_collate"
    /\ call.res.ok
    /\ Len(call.batch) = 2
    /\ call.res.val.index_path = "index_b"
    /\ call.res.val.k = 5

-----------------------------------------------------------------------------
(* Errors *)

\* C8: a record with an unsupported source or target tag is a hard error in
\* both item builders: a training dataset never exists over an unsupported
\* target tag, and every item returned carries the record's own, supported
\* tags (training) or their ids (generic), never a default.
C8_UnsupportedTagIsError ==
    /\ obj = "XLingualDataset" =>
           \A i \in DOMAIN records : records[i].Target_ID \in SupportedTags
    /\ GotTrainItem =>
           LET d == Served(call.idx)
           IN  /\ d.Source_ID \in SupportedTags
               /\ d.Target_ID \in SupportedTags
               /\ call.res.val.source_lang = d.Source_ID
               /\ call.res.val.target_lang = d.Target_ID
    /\ GotLoaderItem =>
           LET d == Served(call.idx)
           IN  /\ d.Source_ID \in SupportedTags
               /\ d.Target_ID \in SupportedTags
               /\ call.res.val.src_id = <<language_ids[d.Source_ID]>>
               /\ call.res.val.target_id = <<language_ids[d.Target_ID]>>

C8_Witness ==
    /\ call.op = "XLingualDataset.__getitem__"
    /\ InRange(call.idx)
    /\ records[call.idx + 1].Source_ID \notin SupportedTags
    /\ Len(targets) = Len(records)
    /\ ~call.res.ok
    /\ call.res.err = "KeyError"

IsGet == call.op \in {"XLingualDataset.__getitem__", "XLingualLoader.__getitem__"}

\* C9 as stated: get(idx) with any idx outside 0..length()-1, negative ones
\* included, fails and returns no item.
C9_OutsideRangeFails ==
    (IsGet /\ ~InRange(call.idx)) => ~call.res.ok

\* C9 amended: get(idx) with idx >= length() or idx < -length() fails with an
\* IndexError and returns no item.
C9_BeyondEitherEndFails ==
    (IsGet /\ (call.idx >= XLingualDataset_len(records)
               \/ call.idx < -XLingualDataset_len(records)))
    => (~call.res.ok /\ call.res.err = "IndexError")

C9_Witness ==
    /\ call.op = "XLingualLoader.__getitem__"
    /\ Len(records) >= 1
    /\ call.idx = Len(records)
    /\ ~call.res.ok

====
